---- MODULE Spec2Model ----
(***************************************************************************)
(* hank-sync: QUIC file transfer server (src/src/server.rs), its audit     *)
(* trail (src/src/audit.rs), the server bootstrap (src/src/main.rs), the   *)
(* transport limits (src/src/tls.rs), the Put drivers of the client        *)
(* (src/src/client.rs) and its path normalization (src/src/state.rs).      *)
(*                                                                         *)
(* A path string is a sequence of symbols: "/" and "." are the two         *)
(* characters the server's path guard looks at, every other symbol stands  *)
(* for a run of characters that contains neither.  A filesystem location   *)
(* is the sequence of its components from "/" down; a component is a       *)
(* non-empty sequence of symbols.  A file's content is a sequence of       *)
(* units (payload bytes, or the tokens of a serialized audit line).        *)
(***************************************************************************)
EXTENDS Naturals, Integers, Sequences, FiniteSets, TLC

VARIABLES fs, auditLoc, auditQueue, writerLog, streams, menu, script,
          conn, client, pathIn, pathOp, pathOut

vars == <<fs, auditLoc, auditQueue, writerLog, streams, menu, script,
          conn, client, pathIn, pathOp, pathOut>>

\* ------------------------------------------------------------------ bounds
MaxStreams == 2
MaxSize == 2
QueueCap == 2
MaxPathLen == 5
StreamCap == 1
MaxFrame == 4

\* ------------------------------------------------------- program constants
BufLen == 65536
DirLen == 4096

\* ------------------------------------------------------------ small helpers
Min(a, b) == IF a < b THEN a ELSE b

Last(s) == s[Len(s)]

IsPrefix(p, s) == Len(p) <= Len(s) /\ SubSeq(s, 1, Len(p)) = p

\* ------------------------------------------------------ path guard (server)
\* str::trim_start_matches('/'): drops every leading '/'.
RECURSIVE TrimStartSlashes(_)
TrimStartSlashes(p) ==
    IF p # <<>> /\ Head(p) = "/" THEN TrimStartSlashes(Tail(p)) ELSE p

\* str::replace("..", ""): one left-to-right pass over non-overlapping matches.
RECURSIVE ReplaceDotDot(_)
ReplaceDotDot(p) ==
    IF p = <<>> THEN <<>>
    ELSE IF Len(p) >= 2 /\ p[1] = "." /\ p[2] = "."
         THEN ReplaceDotDot(SubSeq(p, 3, Len(p)))
         ELSE <<Head(p)>> \o ReplaceDotDot(Tail(p))

CleanPath(p) == ReplaceDotDot(TrimStartSlashes(p))

\* Path::components of a string: split at '/', empty and "." components are
\* skipped, ".." stays a component of its own.
RECURSIVE SplitSlash(_, _)
SplitSlash(p, cur) ==
    IF p = <<>> THEN <<cur>>
    ELSE IF Head(p) = "/" THEN <<cur>> \o SplitSlash(Tail(p), <<>>)
         ELSE SplitSlash(Tail(p), Append(cur, Head(p)))

Components(p) ==
    SelectSeq(SplitSlash(p, <<>>), LAMBDA c : c # <<>> /\ c # <<".">>)

IsAbsolute(p) == p # <<>> /\ Head(p) = "/"

\* Path::join: an absolute argument replaces the base.
PathJoin(base, p) == IF IsAbsolute(p) THEN Components(p) ELSE base \o Components(p)

\* The configured root directory (--root).
Root == << <<"srv">> >>

ResolvePut(p) == PathJoin(Root, CleanPath(p))

ResolveGet(p) == PathJoin(Root, CleanPath(p))

ResolveList(p) == IF CleanPath(p) = <<>> THEN Root ELSE PathJoin(Root, CleanPath(p))

\* A location is confined when it is the root or lies below it, with no
\* ".." component left that would climb out again.
Confined(loc) == IsPrefix(Root, loc) /\ \A i \in 1..Len(loc) : loc[i] # <<".", ".">>

\* --------------------------------------------------------------- filesystem
\* Path strings the clients of the model send.
PathD == <<"d">>
PathDA == <<"d", "/", "a">>
PathDB == <<"d", "/", "b">>
PathAudit == <<"audit", ".", "jsonl">>
PathSlash == <<"/">>
PathNotes == <<"notes", ".", "txt">>
PathSlashNotes == <<"/", "notes", ".", "txt">>

\* main.rs: audit_log.unwrap_or_else(|| root.join("audit.jsonl"))
DefaultAuditLoc == PathJoin(Root, PathAudit)

\* A location given with --audit-log, outside the root.
ExternalAuditLoc == << <<"var">>, <<"audit", ".", "jsonl">> >>

Prefixes(loc) == {SubSeq(loc, 1, k) : k \in 0..Len(loc)}

Locs ==
    UNION {Prefixes(l) : l \in {ResolvePut(PathDA), ResolvePut(PathDB),
                                ResolvePut(PathAudit), ResolvePut(PathNotes),
                                DefaultAuditLoc, ExternalAuditLoc}}

NoNode == [kind |-> "none", data |-> <<>>]
DirNode == [kind |-> "dir", data |-> <<>>]
FileNode(d) == [kind |-> "file", data |-> d]

Parent(loc) == SubSeq(loc, 1, Len(loc) - 1)

IsDir(f, loc) == loc \in Locs /\ f[loc].kind = "dir"
IsFile(f, loc) == loc \in Locs /\ f[loc].kind = "file"

\* fs::create_dir_all: creates the missing directories from the top down and
\* fails at the first ancestor that is a file; what it created stays.
RECURSIVE MkdirFrom(_, _, _)
MkdirFrom(f, loc, k) ==
    IF k > Len(loc) THEN [ok |-> TRUE, fs |-> f]
    ELSE LET pre == SubSeq(loc, 1, k) IN
         IF f[pre].kind = "file" THEN [ok |-> FALSE, fs |-> f]
         ELSE MkdirFrom([f EXCEPT ![pre] = DirNode], loc, k + 1)

CreateDirAll(f, loc) == MkdirFrom(f, loc, 0)

\* File::create: open with create + truncate; fails on a directory or when
\* the parent is not a directory.
FileCreateKeep(f, loc) ==
    IF loc = <<>> \/ f[loc].kind = "dir" \/ f[Parent(loc)].kind # "dir"
    THEN [ok |-> FALSE, fs |-> f]
    ELSE [ok |-> TRUE, fs |-> [f EXCEPT ![loc] = FileNode(f[loc].data)]]

FileCreate(f, loc) ==
    IF loc = <<>> \/ f[loc].kind = "dir" \/ f[Parent(loc)].kind # "dir"
    THEN [ok |-> FALSE, fs |-> f]
    ELSE [ok |-> TRUE, fs |-> [f EXCEPT ![loc] = FileNode(<<>>)]]

Zeros(n) == [i \in 1..n |-> "0"]

\* write_all through a handle whose offset is off: overwrites in place, and
\* fills with zero bytes when the file has become shorter than the offset.
WriteAt(data, off, bytes) ==
    IF off <= Len(data)
    THEN SubSeq(data, 1, off) \o bytes \o SubSeq(data, off + Len(bytes) + 1, Len(data))
    ELSE data \o Zeros(off - Len(data)) \o bytes

\* OpenOptions create + append, then write_all: always at the end of file.
AppendFile(f, loc, units) ==
    IF f[loc].kind = "dir" \/ f[Parent(loc)].kind # "dir"
    THEN [ok |-> FALSE, fs |-> f]
    ELSE [ok |-> TRUE, fs |-> [f EXCEPT ![loc] = FileNode(f[loc].data \o units)]]

\* Metadata::len
MetaLen(node) == IF node.kind = "dir" THEN DirLen ELSE Len(node.data)

\* ------------------------------------------------------------- audit trail
None == <<>>
Some(v) == <<v>>

\* AuditEntry::new(event) followed by the with_* builders.  src tags the
\* task that built the entry (0 is run()); it stands for the timestamp and
\* is not part of the serialized line.
AuditEntry(event, src, path, size, success) ==
    [event |-> event, src |-> src, path |-> path, size |-> size, success |-> success]

ServerStartEntry == AuditEntry("server_start", 0, None, None, TRUE)

\* serde_json::to_string(entry) and the newline write_entry adds.
JsonLine(e) == <<e.event, IF e.success THEN "true" ELSE "false", "\n">>

\* mpsc::Sender::send on the bounded channel: completes once there is room.
CanSend(q) == Len(q) < QueueCap

EnqueueNothing(q, e) == q

Enqueue(q, e) == Append(q, e)

\* ----------------------------------------------------------------- requests
Payload(k) == [i \in 1..k |-> IF i % 2 = 1 THEN "x" ELSE "y"]

OldContent == [i \in 1..(MaxSize + 1) |-> "z"]

\* What a Put client declares (size) and what it then sends (data).
\* The whole file, an empty file, a sender that stops one byte early, and a
\* sender that goes on one byte past the declared size.
PutPlans ==
    {[data |-> Payload(MaxSize), size |-> MaxSize],
     [data |-> Payload(0), size |-> 0],
     [data |-> Payload(MaxSize - 1), size |-> MaxSize],
     [data |-> Payload(MaxSize), size |-> MaxSize - 1]}

PutReq(p, plan) ==
    [cmd |-> "put", path |-> p, size |-> plan.size, data |-> plan.data,
     recursive |-> FALSE, long |-> FALSE]

GetReq(p) ==
    [cmd |-> "get", path |-> p, size |-> 0, data |-> <<>>,
     recursive |-> FALSE, long |-> FALSE]

ListReq(p, r) ==
    [cmd |-> "list", path |-> p, size |-> 0, data |-> <<>>,
     recursive |-> r, long |-> FALSE]

StatusReq ==
    [cmd |-> "status", path |-> <<>>, size |-> 0, data |-> <<>>,
     recursive |-> FALSE, long |-> FALSE]

Requests ==
    {PutReq(PathDA, plan) : plan \in PutPlans}
    \cup {GetReq(PathDA), ListReq(PathSlash, FALSE), StatusReq}

\* The same, and Puts whose destination is the audit log's default place.
WideRequests ==
    Requests
    \cup {PutReq(PathAudit, plan) : plan \in PutPlans}
    \cup {GetReq(PathSlash), ListReq(PathSlash, TRUE)}

\* One request of each kind, the Put whole or cut one byte short.
FaultRequests ==
    {PutReq(PathDA, [data |-> Payload(MaxSize), size |-> MaxSize]),
     PutReq(PathDA, [data |-> Payload(MaxSize - 1), size |-> MaxSize]),
     GetReq(PathDA), ListReq(PathSlash, FALSE), StatusReq}

\* A frame the server cannot decode.
GarbageReq ==
    [cmd |-> "garbage", path |-> <<>>, size |-> 0, data |-> <<>>,
     recursive |-> FALSE, long |-> FALSE]

\* A List followed on the same stream by one more byte.
PipelinedList == [ListReq(PathSlash, FALSE) EXCEPT !.data = Payload(1)]

\* Requests that meet an obstacle: a Put onto d (a directory, or a file that
\* then stands in the way of d/a) sending past its declared size, a Put cut
\* short, Gets of a missing path and of a directory, a bad frame.
EdgeRequests ==
    {PutReq(PathD, [data |-> Payload(MaxSize), size |-> MaxSize - 1]),
     PutReq(PathDA, [data |-> Payload(MaxSize - 1), size |-> MaxSize]),
     GetReq(PathDA), GetReq(PathD), PipelinedList, StatusReq, GarbageReq}

\* ---------------------------------------------------------------- responses
Response(status) ==
    [status |-> status, written |-> 0, size |-> 0, entries |-> {},
     total_size |-> 0, file_count |-> 0]

\* --------------------------------------------------------------- connection
\* The connection task: state is where handle_connection stands (incoming,
\* open: in the accept loop, ended), cause is what the transport will report
\* to the next accept_bi (none, closed: ApplicationClosed by the peer, lost:
\* any other ConnectionError, refused: the handshake failed).
Connection(state, cause) == [state |-> state, cause |-> cause]

OpenConn == Connection("open", "none")

\* ------------------------------------------------------------------ streams
\* A stream: the request, where its task stands (pc), the responses (resp)
\* and raw bytes (body) sent to the client, the handler's result (hres) and
\* the task's (result).  Bookkeeping for the properties: after is the Put
\* whose complete upload a Get found at its path (0 if none).
\* handle_stream after the request was decoded: Put runs its handler first,
\* the other commands record their audit entry first.
\* A frame that read_exact or serde_json rejects ends the task at once with
\* the error (cmd = "garbage"): no handler, no audit entry.
NewStream(req) ==
    [req |-> req,
     pc |-> IF req.cmd = "put" THEN "put_prepare"
            ELSE IF req.cmd = "garbage" THEN "done" ELSE "audit",
     resp |-> <<>>, body |-> <<>>, received |-> 0, fsize |-> 0, sent |-> 0,
     hres |-> "none", result |-> IF req.cmd = "garbage" THEN "err" ELSE "none",
     after |-> 0]

Sids == 1..Len(streams)

SetStreamAbortAll(s, st) ==
    [t \in DOMAIN streams |->
        IF t = s THEN st
        ELSE IF st.hres = "err" \/ st.result = "err"
             THEN [streams[t] EXCEPT !.pc = "done", !.result = "err"]
             ELSE streams[t]]

\* Each task owns its stream: a step of task s changes stream s only.
SetStream(s, st) == [streams EXCEPT ![s] = st]

\* ------------------------------------------------------------ initial state
BaseFs == [l \in Locs |-> IF l \in {<<>>, Root, Parent(ExternalAuditLoc)}
                          THEN DirNode ELSE NoNode]

\* run(): create_dir_all(root) on a root that is empty, or that holds a file
\* left by an earlier run.
EmptyFs == BaseFs
OldFs == [BaseFs EXCEPT ![Parent(ResolvePut(PathDA))] = DirNode,
                        ![ResolvePut(PathDA)] = FileNode(OldContent)]

\* State once run() has started the audit writer and logged ServerStart.
ServerStarted ==
    /\ auditQueue = <<ServerStartEntry>>
    /\ writerLog = <<>>
    /\ streams = <<>>
    /\ client = <<>>
    /\ pathIn = <<>> /\ pathOp = "none" /\ pathOut = <<>>

\* handle_connection has logged Connect and stands in its accept loop.
Established == conn = OpenConn

Init ==
    /\ ServerStarted
    /\ Established
    /\ auditLoc = DefaultAuditLoc
    /\ fs \in {EmptyFs, OldFs}
    /\ menu = Requests
    /\ script = <<>>

WideInit ==
    /\ ServerStarted
    /\ Established
    /\ auditLoc \in {DefaultAuditLoc, ExternalAuditLoc}
    /\ fs \in {EmptyFs, OldFs}
    /\ menu = WideRequests
    /\ script = <<>>

\* ------------------------------------------------------------------ clients
\* A client opens a stream and sends one framed request on it.
\* connection.accept_bi() returned the stream and its task was spawned.
ClientOpen ==
    /\ conn.state = "open"
    /\ Len(streams) < MaxStreams
    /\ \E req \in menu : streams' = Append(streams, NewStream(req))
    /\ UNCHANGED <<fs, auditLoc, auditQueue, writerLog, menu, script, conn, client, pathIn, pathOp, pathOut>>

\* ---------------------------------------------------------------- handle_put
PutFailedWithError(st) ==
    [st EXCEPT !.pc = "audit", !.hres = "err", !.resp = Append(@, Response("error"))]

\* An fs or stream call of handle_put returned Err and ? left the handler:
\* nothing more is sent, handle_stream goes on to record the entry.
PutFailed(st) == [st EXCEPT !.pc = "audit", !.hres = "err"]

\* Sanitize, create the parent directories, send Ok.
PutPrepare(s) ==
    LET st == streams[s]
        dest == ResolvePut(st.req.path)
        mk == IF dest = <<>> THEN [ok |-> TRUE, fs |-> fs]
              ELSE CreateDirAll(fs, Parent(dest))
    IN /\ st.pc = "put_prepare"
       /\ fs' = mk.fs
       /\ streams' = SetStream(s,
            IF mk.ok
            THEN [st EXCEPT !.pc = "put_create",
                            !.resp = Append(@, Response("ok"))]
            ELSE PutFailed(st))
       /\ UNCHANGED <<auditLoc, auditQueue, writerLog, menu, script, conn, client, pathIn, pathOp, pathOut>>

DoneResponseDeclared(st) == [Response("done") EXCEPT !.written = st.req.size]

\* Done{written: received}
DoneResponse(st) == [Response("done") EXCEPT !.written = st.received]

\* Leaving the receive loop: flush, send Done, return Ok.
PutFinish(st) ==
    [st EXCEPT !.pc = "audit", !.hres = "ok", !.resp = Append(@, DoneResponse(st))]

\* The loop condition received < size, evaluated after the step that set
\* received: the handler either stays in the loop or finishes.
LoopOrFinish(st) == IF st.received < st.req.size THEN st ELSE PutFinish(st)

\* File::create(&dest), received = 0
PutCreate(s) ==
    LET st == streams[s]
        cr == FileCreate(fs, ResolvePut(st.req.path))
    IN /\ st.pc = "put_create"
       /\ fs' = cr.fs
       /\ streams' = SetStream(s,
            IF cr.ok THEN LoopOrFinish([st EXCEPT !.pc = "put_read"])
            ELSE PutFailed(st))
       /\ UNCHANGED <<auditLoc, auditQueue, writerLog, menu, script, conn, client, pathIn, pathOp, pathOut>>

\* One iteration of the receive loop in which recv.read returned n > 0 bytes.
PutRead(s) ==
    LET st == streams[s]
        dest == ResolvePut(st.req.path)
        to_read == Min(BufLen, st.req.size - st.received)
        avail == Len(st.req.data) - st.received
    IN /\ st.pc = "put_read"
       /\ \E n \in 1..Min(to_read, avail) :
            LET chunk == SubSeq(st.req.data, st.received + 1, st.received + n) IN
            /\ fs' = [fs EXCEPT ![dest] =
                        FileNode(WriteAt(fs[dest].data, st.received, chunk))]
            /\ streams' = SetStream(s, LoopOrFinish([st EXCEPT !.received = @ + n]))
       /\ UNCHANGED <<auditLoc, auditQueue, writerLog, menu, script, conn, client, pathIn, pathOp, pathOut>>

PeerFinishedAlways(s) == TRUE

\* The sender has finished its side of the stream.  A stream without a
\* driver of its own carries all of req.data and the finish from the start;
\* with a driver, req.data holds what the driver has written so far.
PeerFinished(s) == s \in DOMAIN client => client[s].fin

\* The iteration in which recv.read returned no bytes: the sender has
\* finished the stream and everything it sent was read.
PutEof(s) ==
    LET st == streams[s] IN
    /\ st.pc = "put_read"
    /\ PeerFinished(s)
    /\ Len(st.req.data) - st.received <= 0
    /\ streams' = SetStream(s, PutFinish(st))
    /\ UNCHANGED <<fs, auditLoc, auditQueue, writerLog, menu, script, conn, client, pathIn, pathOp, pathOut>>

\* The iteration in which recv.read or file.write_all returned Err (the peer
\* reset the stream, the disk is full): ? leaves the handler.
PutIoFail(s) ==
    LET st == streams[s] IN
    /\ st.pc = "put_read"
    /\ streams' = SetStream(s, PutFailed(st))
    /\ UNCHANGED <<fs, auditLoc, auditQueue, writerLog, menu, script, conn, client, pathIn, pathOp, pathOut>>

\* -------------------------------------------------------------- handle_list
RECURSIVE JoinSlash(_)
JoinSlash(comps) ==
    IF comps = <<>> THEN <<>>
    ELSE IF Len(comps) = 1 THEN comps[1]
         ELSE comps[1] \o <<"/">> \o JoinSlash(Tail(comps))

FileEntry(f, dir, l, recursive) ==
    [name |-> IF recursive THEN JoinSlash(SubSeq(l, Len(dir) + 1, Len(l))) ELSE Last(l),
     is_dir |-> f[l].kind = "dir",
     size |-> MetaLen(f[l])]

ListEntries(f, dir, recursive) ==
    IF ~IsDir(f, dir) THEN {}
    ELSE {FileEntry(f, dir, l, recursive) :
            l \in {m \in Locs : /\ IsPrefix(dir, m)
                                /\ f[m].kind # "none"
                                /\ IF recursive THEN Len(m) > Len(dir)
                                   ELSE Len(m) = Len(dir) + 1}}

ListHandleStrict(s) ==
    LET st == streams[s]
        dir == ResolveList(st.req.path)
        entries == ListEntries(fs, dir, st.req.recursive)
    IN /\ st.pc = "list"
       /\ streams' = SetStream(s,
            [st EXCEPT !.pc = "done", !.hres = "ok", !.result = "ok",
                       !.resp = Append(@, IF IsDir(fs, dir)
                                          THEN [Response("list") EXCEPT !.entries = entries]
                                          ELSE Response("error"))])
       /\ UNCHANGED <<fs, auditLoc, auditQueue, writerLog, menu, script, conn, client, pathIn, pathOp, pathOut>>

\* is_dir, the walk or read_dir, send List{entries}.
ListHandle(s) ==
    LET st == streams[s]
        entries == ListEntries(fs, ResolveList(st.req.path), st.req.recursive)
    IN /\ st.pc = "list"
       /\ streams' = SetStream(s,
            [st EXCEPT !.pc = "done", !.hres = "ok", !.result = "ok",
                       !.resp = Append(@, [Response("list") EXCEPT !.entries = entries])])
       /\ UNCHANGED <<fs, auditLoc, auditQueue, writerLog, menu, script, conn, client, pathIn, pathOp, pathOut>>

\* ------------------------------------------------------------ handle_status
RECURSIVE SumLen(_, _)
SumLen(f, S) ==
    IF S = {} THEN 0
    ELSE LET l == CHOOSE x \in S : TRUE IN Len(f[l].data) + SumLen(f, S \ {l})

FilesUnder(f, dir) == {l \in Locs : IsPrefix(dir, l) /\ f[l].kind = "file"}

StatusResponse(f) ==
    [Response("status") EXCEPT !.total_size = SumLen(f, FilesUnder(f, Root)),
                               !.file_count = Cardinality(FilesUnder(f, Root))]

StatusHandle(s) ==
    LET st == streams[s] IN
    /\ st.pc = "status"
    /\ streams' = SetStream(s,
            [st EXCEPT !.pc = "done", !.hres = "ok", !.result = "ok",
                       !.resp = Append(@, StatusResponse(fs))])
    /\ UNCHANGED <<fs, auditLoc, auditQueue, writerLog, menu, script, conn, client, pathIn, pathOp, pathOut>>

\* --------------------------------------------------------------- handle_get
\* A Put that sent exactly its declared size and got Done.
CompleteUpload(st) ==
    /\ st.req.cmd = "put" /\ st.hres = "ok"
    /\ st.received = st.req.size /\ Len(st.req.data) = st.req.size

\* The Puts accepted so far whose destination is loc.
PutsTo(loc) ==
    {u \in Sids : streams[u].req.cmd = "put" /\ ResolvePut(streams[u].req.path) = loc}

\* The one Put to loc, when there is exactly one and it is complete; else 0.
UploadAt(g, loc) ==
    IF \E u \in Sids : PutsTo(loc) = {u} /\ CompleteUpload(streams[u])
    THEN CHOOSE u \in Sids : PutsTo(loc) = {u} ELSE 0

\* fs::metadata, then Error{"Not a file"} or File{size}.
GetMeta(s) ==
    LET st == streams[s]
        loc == ResolveGet(st.req.path)
    IN /\ st.pc = "get"
       /\ streams' = SetStream(s,
            IF loc \notin Locs \/ fs[loc].kind = "none"
            THEN [st EXCEPT !.pc = "done", !.hres = "err", !.result = "err"]
            ELSE IF fs[loc].kind # "file"
            THEN [st EXCEPT !.pc = "done", !.hres = "ok", !.result = "ok",
                            !.resp = Append(@, Response("error"))]
            ELSE [st EXCEPT !.pc = "get_send", !.fsize = MetaLen(fs[loc]),
                            !.after = UploadAt(s, loc),
                            !.resp = Append(@, [Response("file") EXCEPT
                                                  !.size = MetaLen(fs[loc])])])
       /\ UNCHANGED <<fs, auditLoc, auditQueue, writerLog, menu, script, conn, client, pathIn, pathOp, pathOut>>

\* File::open and the send loop: each iteration reads up to a buffer from the
\* handle's offset and writes it to the stream; the loop ends when sent
\* reaches size or a read returns nothing.
GetSend(s) ==
    LET st == streams[s]
        data == fs[ResolveGet(st.req.path)].data
        n == IF st.sent >= Len(data) THEN 0 ELSE Min(BufLen, Len(data) - st.sent)
    IN /\ st.pc = "get_send"
       /\ streams' = SetStream(s,
            IF st.sent >= st.fsize \/ n = 0
            THEN [st EXCEPT !.pc = "done", !.hres = "ok", !.result = "ok"]
            ELSE [st EXCEPT !.sent = @ + n,
                            !.body = @ \o SubSeq(data, st.sent + 1, st.sent + n),
                            !.pc = IF st.sent + n >= st.fsize THEN "done" ELSE @,
                            !.hres = IF st.sent + n >= st.fsize THEN "ok" ELSE @,
                            !.result = IF st.sent + n >= st.fsize THEN "ok" ELSE @])
       /\ UNCHANGED <<fs, auditLoc, auditQueue, writerLog, menu, script, conn, client, pathIn, pathOp, pathOut>>

\* ------------------------------------------------------------ handle_stream
StreamEntryWritten(s, st) ==
    IF st.req.cmd = "put"
    THEN AuditEntry("file_received", s, Some(st.req.path), Some(st.received),
                    st.hres = "ok")
    ELSE IF st.req.cmd = "list"
    THEN AuditEntry("list_request", s, Some(st.req.path), None, TRUE)
    ELSE IF st.req.cmd = "status"
    THEN AuditEntry("status_request", s, None, None, TRUE)
    ELSE AuditEntry("file_request", s, Some(st.req.path), None, TRUE)

\* The audit entry handle_stream builds for the stream's request.
StreamEntry(s, st) ==
    IF st.req.cmd = "put"
    THEN AuditEntry("file_received", s, Some(st.req.path), Some(st.req.size),
                    st.hres = "ok")
    ELSE IF st.req.cmd = "list"
    THEN AuditEntry("list_request", s, Some(st.req.path), None, TRUE)
    ELSE IF st.req.cmd = "status"
    THEN AuditEntry("status_request", s, None, None, TRUE)
    ELSE AuditEntry("file_request", s, Some(st.req.path), None, TRUE)

AfterAuditNextRequest(st) ==
    IF st.req.cmd # "put" THEN [st EXCEPT !.pc = st.req.cmd]
    ELSE IF st.hres = "ok" /\ Len(st.req.data) > st.received
         THEN [st EXCEPT !.pc = "put_prepare"]
         ELSE [st EXCEPT !.pc = "done", !.result = st.hres]

\* After the audit send: Put propagates its handler's result (result?), the
\* other commands go on to their handler.
AfterAudit(st) ==
    IF st.req.cmd = "put" THEN [st EXCEPT !.pc = "done", !.result = st.hres]
    ELSE [st EXCEPT !.pc = st.req.cmd]

\* audit_tx.send(entry).await
AuditRecord(s) ==
    LET st == streams[s] IN
    /\ st.pc = "audit"
    /\ CanSend(auditQueue)
    /\ auditQueue' = Enqueue(auditQueue, StreamEntry(s, st))
    /\ streams' = SetStream(s, AfterAudit(st))
    /\ UNCHANGED <<fs, auditLoc, writerLog, menu, script, conn, client, pathIn, pathOp, pathOut>>

\* ------------------------------------------------------------- audit writer
\* write_entry: open for append, write the JSON line.  io = FALSE is an I/O
\* error of the open or of a write (disk full, permission).
WriteEntry(f, loc, e, io) ==
    IF io THEN AppendFile(f, loc, JsonLine(e)) ELSE [ok |-> FALSE, fs |-> f]

AfterWriteRetry(q, ok) == IF ok THEN Tail(q) ELSE q

\* The writer loop goes on to the next entry whatever write_entry returned.
AfterWrite(q, ok) == Tail(q)

ReceivedNewest(q) == Last(q)

\* rx.recv(): the oldest entry in the channel.
Received(q) == Head(q)

\* One iteration of the writer task: rx.recv(), write_entry, eprintln on error.
WriterIteration(io) ==
    LET w == WriteEntry(fs, auditLoc, Received(auditQueue), io) IN
    /\ auditQueue # <<>>
    /\ fs' = w.fs
    /\ writerLog' = Append(writerLog, [entry |-> Received(auditQueue), ok |-> w.ok])
    /\ auditQueue' = AfterWrite(auditQueue, w.ok)
    /\ UNCHANGED <<auditLoc, streams, menu, script, conn, client, pathIn, pathOp, pathOut>>

WriterStep == WriterIteration(TRUE)

\* The same iteration when the environment fails the write.
WriterFail == WriterIteration(FALSE)

\* ------------------------------------------------------------ specification
ServerNext ==
    \/ \E s \in Sids : PutPrepare(s)
    \/ \E s \in Sids : PutCreate(s)
    \/ \E s \in Sids : PutRead(s)
    \/ \E s \in Sids : PutEof(s)
    \/ \E s \in Sids : ListHandle(s)
    \/ \E s \in Sids : StatusHandle(s)
    \/ \E s \in Sids : GetMeta(s)
    \/ \E s \in Sids : GetSend(s)
    \/ \E s \in Sids : AuditRecord(s)
    \/ WriterStep

Next == ClientOpen \/ ServerNext

Spec == Init /\ [][Next]_vars

\* The server with an audit log whose writes may fail.
FaultInit ==
    /\ ServerStarted
    /\ Established
    /\ auditLoc = DefaultAuditLoc
    /\ fs = EmptyFs
    /\ menu = FaultRequests
    /\ script = <<>>

FaultNext == Next \/ WriterFail

FaultSpec == FaultInit /\ [][FaultNext]_vars

WideSpec == WideInit /\ [][Next]_vars

\* ------------------------------------------------- handle_connection
ConnectEntryWrongEvent == AuditEntry("server_start", 0, None, None, TRUE)

\* AuditEntry::new(AuditEvent::Connect).with_remote(remote)
ConnectEntry == AuditEntry("connect", 0, None, None, TRUE)

TerminalEntryDisconnect(cause) == AuditEntry("disconnect", 0, None, None, TRUE)

\* What the accept loop logs before break: Disconnect for ApplicationClosed,
\* Error with success = false for every other ConnectionError.
TerminalEntry(cause) ==
    IF cause = "closed" THEN AuditEntry("disconnect", 0, None, None, TRUE)
    ELSE AuditEntry("error", 0, None, None, FALSE)

\* incoming.await succeeded; the Connect entry is sent.
ConnEstablish ==
    /\ conn = Connection("incoming", "none")
    /\ CanSend(auditQueue)
    /\ auditQueue' = Enqueue(auditQueue, ConnectEntry)
    /\ conn' = OpenConn
    /\ UNCHANGED <<fs, auditLoc, writerLog, streams, menu, script, client, pathIn, pathOp, pathOut>>

\* incoming.await? failed: handle_connection returns before its first entry.
ConnRefused ==
    /\ conn = Connection("incoming", "none")
    /\ conn' = Connection("ended", "refused")
    /\ UNCHANGED <<fs, auditLoc, auditQueue, writerLog, streams, menu, script, client, pathIn, pathOp, pathOut>>

\* The peer calls connection.close (client.rs, after its command).
PeerClose ==
    /\ conn = OpenConn
    /\ conn' = Connection("open", "closed")
    /\ UNCHANGED <<fs, auditLoc, auditQueue, writerLog, streams, menu, script, client, pathIn, pathOp, pathOut>>

\* The transport gives up the connection (timeout, reset, protocol error).
TransportLoss ==
    /\ conn = OpenConn
    /\ conn' = Connection("open", "lost")
    /\ UNCHANGED <<fs, auditLoc, auditQueue, writerLog, streams, menu, script, client, pathIn, pathOp, pathOut>>

\* accept_bi returned Err: the terminal entry is sent and the loop breaks.
AcceptEnd ==
    /\ conn.state = "open" /\ conn.cause # "none"
    /\ CanSend(auditQueue)
    /\ auditQueue' = Enqueue(auditQueue, TerminalEntry(conn.cause))
    /\ conn' = Connection("ended", conn.cause)
    /\ UNCHANGED <<fs, auditLoc, writerLog, streams, menu, script, client, pathIn, pathOp, pathOut>>

\* A read or write on a stream of a connection that is gone returns Err
\* and ? leaves the handler.
StreamAbort(s) ==
    LET st == streams[s] IN
    /\ conn.cause \in {"closed", "lost"}
    /\ st.pc \in {"put_read", "get_send", "list", "status", "get"}
    /\ streams' = SetStream(s,
            IF st.req.cmd = "put" THEN PutFailed(st)
            ELSE [st EXCEPT !.pc = "done", !.hres = "err", !.result = "err"])
    /\ UNCHANGED <<fs, auditLoc, auditQueue, writerLog, menu, script, conn, client, pathIn, pathOp, pathOut>>

\* What the streams of the connection carry: a Put of an empty file, Status.
ConnRequests ==
    {PutReq(PathDA, [data |-> Payload(0), size |-> 0]), StatusReq}

ConnInit ==
    /\ ServerStarted
    /\ conn = Connection("incoming", "none")
    /\ auditLoc = DefaultAuditLoc
    /\ fs = EmptyFs
    /\ menu = ConnRequests
    /\ script = <<>>

ConnNext ==
    \/ ConnEstablish \/ ConnRefused \/ PeerClose \/ TransportLoss \/ AcceptEnd
    \/ ClientOpen
    \/ \E s \in Sids : StreamAbort(s)
    \/ \E s \in Sids : PutPrepare(s)
    \/ \E s \in Sids : PutCreate(s)
    \/ \E s \in Sids : StatusHandle(s)
    \/ \E s \in Sids : AuditRecord(s)
    \/ WriterStep

\* The runtime runs every task that is ready: the accept loop and the writer.
ConnSpec ==
    ConnInit /\ [][ConnNext]_vars /\ WF_vars(AcceptEnd) /\ WF_vars(WriterStep)

\* The producers of audit entries (run, the connection task, stream tasks)
\* beside a writer whose writes may fail.
AuditInit ==
    /\ ServerStarted
    /\ conn = Connection("incoming", "none")
    /\ auditLoc = DefaultAuditLoc
    /\ fs = EmptyFs
    /\ menu = {StatusReq}
    /\ script = <<>>

AuditNext ==
    \/ ConnEstablish \/ PeerClose \/ AcceptEnd
    \/ ClientOpen
    \/ \E s \in Sids : StatusHandle(s)
    \/ \E s \in Sids : AuditRecord(s)
    \/ WriterStep
    \/ WriterFail

AuditSpec == AuditInit /\ [][AuditNext]_vars

\* ------------------------------------------------- client: send_dir
\* The files the walk of the local directory d yields, as the Puts
\* send_file_with_path makes of them (size from the metadata, then the
\* whole file).
DirFiles ==
    <<PutReq(PathDA, [data |-> Payload(MaxSize), size |-> MaxSize]),
      PutReq(PathDB, [data |-> Payload(MaxSize - 1), size |-> MaxSize - 1])>>

\* A root in which a directory stands where the first file should go.
BlockedFs == [BaseFs EXCEPT ![Parent(ResolvePut(PathDA))] = DirNode,
                            ![ResolvePut(PathDA)] = DirNode]

DirInit ==
    /\ ServerStarted
    /\ Established
    /\ auditLoc \in {DefaultAuditLoc, ExternalAuditLoc}
    /\ fs \in {EmptyFs, OldFs, BlockedFs}
    /\ menu = {}
    /\ script = DirFiles

PreviousAnsweredAlways == TRUE

\* send_file_with_path has returned Ok for the file before: both of its
\* recv_response calls returned (Ok, then the final response).
PreviousAnswered == IF streams = <<>> THEN TRUE ELSE Len(Last(streams).resp) = 2

\* The next iteration of the for loop: open_bi and send_request.
DirOpen ==
    /\ script # <<>>
    /\ conn.state = "open"
    /\ PreviousAnswered
    /\ streams' = Append(streams, NewStream(Head(script)))
    /\ script' = Tail(script)
    /\ UNCHANGED <<fs, auditLoc, auditQueue, writerLog, menu, conn, client, pathIn, pathOp, pathOut>>

\* The stream ended without its final response: a client call returns Err
\* and ? leaves send_dir, the rest of the walk is not sent.
DirStop ==
    /\ script # <<>>
    /\ streams # <<>>
    /\ Last(streams).pc = "done" /\ Len(Last(streams).resp) < 2
    /\ script' = <<>>
    /\ UNCHANGED <<fs, auditLoc, auditQueue, writerLog, streams, menu, conn, client, pathIn, pathOp, pathOut>>

DirNext ==
    \/ DirOpen
    \/ DirStop
    \/ \E s \in Sids : PutPrepare(s)
    \/ \E s \in Sids : PutCreate(s)
    \/ \E s \in Sids : PutRead(s)
    \/ \E s \in Sids : AuditRecord(s)
    \/ WriterStep

DirSpec == DirInit /\ [][DirNext]_vars

\* ------------------------------------------------- client: send_file
\* send_file on its stream: where it stands (pc), the local file as its
\* reads return it (file), the bytes written to the stream (sent), whether
\* send.finish() was called (fin), whether the stream was reset (reset).
DriverEager(file) ==
    [pc |-> "sending", file |-> file, sent |-> 0, fin |-> FALSE, reset |-> FALSE]

Driver(file) ==
    [pc |-> "wait_ok", file |-> file, sent |-> 0, fin |-> FALSE, reset |-> FALSE]

SetClient(s, c) == [client EXCEPT ![s] = c]

\* send: one send_file on the connection.  open_bi and send_request: Put
\* with the size metadata.len() gave.  The file read afterwards is the same,
\* shorter or longer (PutPlans).
SendOpen ==
    /\ conn.state = "open"
    /\ streams = <<>>
    /\ \E plan \in PutPlans, p \in {PathDA} :
         /\ streams' = Append(streams,
                 NewStream(PutReq(p, [data |-> <<>>, size |-> plan.size])))
         /\ client' = Append(client, Driver(plan.data))
    /\ UNCHANGED <<fs, auditLoc, auditQueue, writerLog, menu, script, conn, pathIn, pathOp, pathOut>>

\* What recv_response returns next: a response the server has sent and the
\* driver has not yet read, or an error once the server's side has ended.
ResponseReady(s, k) == Len(streams[s].resp) >= k

StreamEnded(s, k) == streams[s].pc = "done" /\ Len(streams[s].resp) < k

\* recv_response returned the first response.
FirstResponse(s) == ResponseReady(s, 1)

\* Wait for OK: anything else, or no response at all, fails the driver.
SendRecvOk(s) ==
    LET c == client[s] IN
    /\ conn = OpenConn
    /\ c.pc = "wait_ok"
    /\ \/ /\ FirstResponse(s)
          /\ client' = SetClient(s,
                [c EXCEPT !.pc = IF streams[s].resp # <<>> /\ streams[s].resp[1].status = "ok"
                                 THEN "sending" ELSE "failed"])
       \/ /\ StreamEnded(s, 1)
          /\ client' = SetClient(s, [c EXCEPT !.pc = "failed"])
    /\ UNCHANGED <<fs, auditLoc, auditQueue, writerLog, streams, menu, script, conn, pathIn, pathOp, pathOut>>

\* One iteration of the send loop: file.read returned n > 0 bytes and
\* write_all put them on the stream.
SendWrite(s) ==
    LET c == client[s]
        st == streams[s]
    IN /\ conn = OpenConn
       /\ c.pc = "sending"
       /\ c.sent < st.req.size
       /\ \E n \in 1..Min(BufLen, Len(c.file) - c.sent) :
            /\ streams' = SetStream(s,
                  [st EXCEPT !.req.data = @ \o SubSeq(c.file, c.sent + 1, c.sent + n)])
            /\ client' = SetClient(s, [c EXCEPT !.sent = @ + n])
       /\ UNCHANGED <<fs, auditLoc, auditQueue, writerLog, menu, script, conn, pathIn, pathOp, pathOut>>

FinishedNoFin(c) == [c EXCEPT !.pc = "wait_done"]

\* send.finish(), then the driver waits for the final response.
Finished(c) == [c EXCEPT !.pc = "wait_done", !.fin = TRUE]

\* The loop is left: sent >= size, or the file has no more bytes.
SendFinish(s) ==
    LET c == client[s] IN
    /\ conn = OpenConn
    /\ c.pc = "sending"
    /\ c.sent >= streams[s].req.size \/ c.sent >= Len(c.file)
    /\ client' = SetClient(s, Finished(c))
    /\ UNCHANGED <<fs, auditLoc, auditQueue, writerLog, streams, menu, script, conn, pathIn, pathOp, pathOut>>

\* Wait for completion: any response lets send_file return Ok, the end of
\* the stream without one is an error.
SendRecvDone(s) ==
    LET c == client[s] IN
    /\ conn = OpenConn
    /\ c.pc = "wait_done"
    /\ \/ /\ ResponseReady(s, 2)
          /\ client' = SetClient(s, [c EXCEPT !.pc = "returned"])
       \/ /\ StreamEnded(s, 2)
          /\ client' = SetClient(s, [c EXCEPT !.pc = "failed"])
    /\ UNCHANGED <<fs, auditLoc, auditQueue, writerLog, streams, menu, script, conn, pathIn, pathOp, pathOut>>

\* write_all on a stream whose server side has ended (the task dropped its
\* receive half): Err, and ? leaves send_file.
SendStopped(s) ==
    LET c == client[s] IN
    /\ conn = OpenConn
    /\ c.pc = "sending"
    /\ c.sent < streams[s].req.size /\ c.sent < Len(c.file)
    /\ streams[s].pc = "done"
    /\ client' = SetClient(s, [c EXCEPT !.pc = "failed"])
    /\ UNCHANGED <<fs, auditLoc, auditQueue, writerLog, streams, menu, script, conn, pathIn, pathOp, pathOut>>

ClientStep ==
    \/ \E s \in DOMAIN client : SendRecvOk(s)
    \/ \E s \in DOMAIN client : SendWrite(s)
    \/ \E s \in DOMAIN client : SendFinish(s)
    \/ \E s \in DOMAIN client : SendRecvDone(s)
    \/ \E s \in DOMAIN client : SendStopped(s)

\* A root in which a file stands where the destination's directory should be.
ShadowedFs == [BaseFs EXCEPT ![Parent(ResolvePut(PathDA))] = FileNode(OldContent)]

SendInit ==
    /\ ServerStarted
    /\ Established
    /\ auditLoc = DefaultAuditLoc
    /\ fs \in {EmptyFs, OldFs, BlockedFs, ShadowedFs}
    /\ menu = {}
    /\ script = <<>>

PutStep ==
    \/ \E s \in Sids : PutPrepare(s)
    \/ \E s \in Sids : PutCreate(s)
    \/ \E s \in Sids : PutRead(s)
    \/ \E s \in Sids : PutEof(s)
    \/ \E s \in Sids : AuditRecord(s)

SendNext == SendOpen \/ ClientStep \/ PutStep \/ WriterStep

\* The runtime runs every task that is ready: the stream tasks, the audit
\* writer, and the driver on the client.
SendSpec ==
    SendInit /\ [][SendNext]_vars
    /\ WF_vars(PutStep) /\ WF_vars(WriterStep) /\ WF_vars(ClientStep)


\* ------------------------------------------------- a Put that stalls
\* The peer resets its side of the stream in the middle of the upload.
PeerReset(s) ==
    LET c == client[s] IN
    /\ conn = OpenConn
    /\ c.pc = "sending"
    /\ client' = SetClient(s, [c EXCEPT !.pc = "failed", !.reset = TRUE])
    /\ UNCHANGED <<fs, auditLoc, auditQueue, writerLog, streams, menu, script, conn, pathIn, pathOp, pathOut>>

\* The connection is gone: the driver's next call on the stream fails.
SendLost(s) ==
    LET c == client[s] IN
    /\ conn.cause # "none"
    /\ c.pc \in {"wait_ok", "sending", "wait_done"}
    /\ client' = SetClient(s, [c EXCEPT !.pc = "failed"])
    /\ UNCHANGED <<fs, auditLoc, auditQueue, writerLog, streams, menu, script, conn, pathIn, pathOp, pathOut>>

\* recv.read returned Err: the peer has reset the stream.
PutReadFail(s) ==
    LET st == streams[s] IN
    /\ st.pc = "put_read"
    /\ s \in DOMAIN client /\ client[s].reset
    /\ streams' = SetStream(s, PutFailed(st))
    /\ UNCHANGED <<fs, auditLoc, auditQueue, writerLog, menu, script, conn, client, pathIn, pathOp, pathOut>>

\* recv.read returned bytes and file.write_all returned Err (the disk is
\* full): nothing of the chunk is counted.
PutWriteFail(s) ==
    LET st == streams[s] IN
    /\ st.pc = "put_read"
    /\ Len(st.req.data) > st.received
    /\ streams' = SetStream(s, PutFailed(st))
    /\ UNCHANGED <<fs, auditLoc, auditQueue, writerLog, menu, script, conn, client, pathIn, pathOp, pathOut>>

StallInit ==
    /\ ServerStarted
    /\ Established
    /\ auditLoc = DefaultAuditLoc
    /\ fs \in {EmptyFs, OldFs, BlockedFs, ShadowedFs}
    /\ menu = {}
    /\ script = <<>>

\* No fairness for the peer: it may stop at any point and stay connected.
StallNext ==
    \/ SendNext
    \/ TransportLoss
    \/ AcceptEnd
    \/ \E s \in DOMAIN client : PeerReset(s)
    \/ \E s \in DOMAIN client : SendLost(s)
    \/ \E s \in Sids : PutReadFail(s)
    \/ \E s \in Sids : PutWriteFail(s)
    \/ \E s \in Sids : StreamAbort(s)

StallSpec == StallInit /\ [][StallNext]_vars

\* ------------------------------------------------- request framing
\* What a peer puts on a stream, unit by unit: the bytes of the length prefix
\* are digits, the units after it stand for the pieces of the JSON text and
\* for payload bytes.
Digits == <<"0", "1", "2", "3", "4", "5", "6", "7">>

IsDigit(b) == \E i \in 1..Len(Digits) : Digits[i] = b

ByteVal(b) == (CHOOSE i \in 1..Len(Digits) : Digits[i] = b) - 1

\* u32::from_be_bytes
FromBeBytes(b) ==
    ((ByteVal(b[1]) * 256 + ByteVal(b[2])) * 256 + ByteVal(b[3])) * 256 + ByteVal(b[4])

PrefixLen == 4

NoRequest == [ok |-> FALSE, req |-> GarbageReq]

\* serde_json::from_slice::<Request>: the tag cmd selects the variant, path
\* is any string, size a number; anything else is an error.
Decode(body) ==
    IF body = <<>> THEN NoRequest
    ELSE IF Head(body) = "status"
         THEN IF Len(body) = 1 THEN [ok |-> TRUE, req |-> StatusReq] ELSE NoRequest
    ELSE IF Head(body) = "list"
         THEN [ok |-> TRUE, req |-> ListReq(Tail(body), FALSE)]
    ELSE IF Head(body) = "get"
         THEN [ok |-> TRUE, req |-> GetReq(Tail(body))]
    ELSE IF Head(body) = "put" /\ Len(body) >= 2 /\ IsDigit(body[2])
         THEN [ok |-> TRUE,
               req |-> PutReq(SubSeq(body, 3, Len(body)),
                              [data |-> <<>>, size |-> ByteVal(body[2])])]
    ELSE NoRequest

ReadFrameLenient(wire) ==
    IF Len(wire) < PrefixLen THEN NoRequest
    ELSE LET len == Min(FromBeBytes(SubSeq(wire, 1, PrefixLen)), Len(wire) - PrefixLen)
             r == Decode(SubSeq(wire, PrefixLen + 1, PrefixLen + len))
         IN IF r.ok
            THEN [r EXCEPT !.req.data = SubSeq(wire, PrefixLen + len + 1, Len(wire))]
            ELSE r

\* The head of handle_stream: read_exact of the prefix, read_exact of len
\* bytes, from_slice.  What follows the frame on the stream is left for the
\* handler (req.data).
ReadFrame(wire) ==
    IF Len(wire) < PrefixLen THEN NoRequest
    ELSE LET len == FromBeBytes(SubSeq(wire, 1, PrefixLen)) IN
         IF Len(wire) - PrefixLen < len THEN NoRequest
         ELSE LET r == Decode(SubSeq(wire, PrefixLen + 1, PrefixLen + len)) IN
              IF r.ok
              THEN [r EXCEPT !.req.data = SubSeq(wire, PrefixLen + len + 1, Len(wire))]
              ELSE r

\* The task a stream's bytes lead to.  For a frame that is not read, the
\* bytes are kept with the stream.
StreamOfWire(wire) ==
    LET r == ReadFrame(wire) IN
    IF r.ok THEN NewStream(r.req) ELSE NewStream([GarbageReq EXCEPT !.data = wire])

FrameSyms == {"status", "list", "put", "d", "1", "x"}

Bodies == UNION {[1..n -> FrameSyms] : n \in 0..MaxFrame}

Prefixes4 ==
    {<<"0", "0", "0", Digits[k + 1]>> : k \in 0..MaxFrame} \cup {<<"0", "0", "1", "0">>}

\* Streams that end inside the prefix, and a prefix followed by any units;
\* of the frames that decode, those whose path the filesystem of the model
\* holds.
FrameInputs ==
    {w \in {<<>>, <<"0">>, <<"0", "0", "0">>} \cup {p \o b : p \in Prefixes4, b \in Bodies} :
        ReadFrame(w).ok => ResolvePut(ReadFrame(w).req.path) \in Locs}

\* accept_bi returned the stream on which the peer sends the bytes of
\* script and then finishes; the task reads the frame.
FrameOpen ==
    /\ conn.state = "open"
    /\ streams = <<>>
    /\ streams' = Append(streams, StreamOfWire(script))
    /\ UNCHANGED <<fs, auditLoc, auditQueue, writerLog, menu, script, conn, client, pathIn, pathOp, pathOut>>

FrameInit ==
    /\ ServerStarted
    /\ Established
    /\ auditLoc = DefaultAuditLoc
    /\ fs \in {EmptyFs, OldFs}
    /\ menu = {}
    /\ script \in FrameInputs

FrameNext ==
    \/ FrameOpen
    \/ PutStep
    \/ \E s \in Sids : ListHandle(s)
    \/ \E s \in Sids : StatusHandle(s)
    \/ WriterStep

FrameSpec == FrameInit /\ [][FrameNext]_vars

\* ------------------------------------------------- the stream limit
\* server_config: max_concurrent_bidi_streams(100).  The transport lets the
\* peer have that many bidirectional streams open at once; StreamCap is the
\* limit scaled to the streams the model opens.  A stream stays open until
\* its task has returned and dropped both halves, which handle_stream owns.
OpenStreams == Cardinality({s \in Sids : streams[s].pc # "done"})

CanOpenStreamAlways(n) == TRUE

\* The peer may open a stream while fewer than the limit are open.
CanOpenStream(n) == n < StreamCap

\* accept_bi returns a stream the transport admitted; its task is spawned.
CapOpen ==
    /\ CanOpenStream(OpenStreams)
    /\ ClientOpen

CapInit ==
    /\ ServerStarted
    /\ Established
    /\ auditLoc = DefaultAuditLoc
    /\ fs \in {EmptyFs, OldFs}
    /\ menu = ConnRequests
    /\ script = <<>>

CapNext ==
    \/ CapOpen
    \/ \E s \in Sids : PutPrepare(s)
    \/ \E s \in Sids : PutCreate(s)
    \/ \E s \in Sids : StatusHandle(s)
    \/ \E s \in Sids : AuditRecord(s)
    \/ WriterStep

CapSpec == CapInit /\ [][CapNext]_vars

\* ------------------------------------------------- streams that fail
EdgeInit ==
    /\ ServerStarted
    /\ Established
    /\ auditLoc = DefaultAuditLoc
    /\ fs \in {EmptyFs, OldFs}
    /\ menu = EdgeRequests
    /\ script = <<>>

EdgeNext == Next \/ \E s \in Sids : PutIoFail(s)

EdgeSpec == EdgeInit /\ [][EdgeNext]_vars

\* ------------------------------------------------ List beside a growing tree
\* Lists of a path that holds nothing or a regular file, and of a directory,
\* while a Put creates that file.
ListRequests ==
    {PutReq(PathDA, [data |-> Payload(MaxSize), size |-> MaxSize]),
     ListReq(PathDA, FALSE), ListReq(PathDA, TRUE), ListReq(PathD, FALSE)}

ListInit ==
    /\ ServerStarted
    /\ Established
    /\ auditLoc = DefaultAuditLoc
    /\ fs \in {EmptyFs, OldFs}
    /\ menu = ListRequests
    /\ script = <<>>

ListNext ==
    \/ ClientOpen
    \/ \E s \in Sids : PutPrepare(s)
    \/ \E s \in Sids : PutCreate(s)
    \/ \E s \in Sids : PutRead(s)
    \/ \E s \in Sids : ListHandle(s)
    \/ \E s \in Sids : AuditRecord(s)
    \/ WriterStep

ListSpec == ListInit /\ [][ListNext]_vars

\* ------------------------------------------------- path guard, input by input
PathAlphabet == {"/", ".", "a"}

\* The traversal paths the specification names.
PathEvil == <<".", ".", "/", ".", ".", "/", ".", ".", "/", "tmp", "/", "evil">>
PathPasswd == <<".", ".", "/", ".", ".", "/", "etc", "/", "passwd">>

PathInputs ==
    UNION {[1..n -> PathAlphabet] : n \in 0..MaxPathLen} \cup {PathEvil, PathPasswd}

PathInit ==
    /\ pathIn \in PathInputs /\ pathOp = "none" /\ pathOut = <<>>
    /\ fs = EmptyFs /\ auditLoc = DefaultAuditLoc /\ auditQueue = <<>>
    /\ writerLog = <<>> /\ streams = <<>> /\ menu = {} /\ script = <<>>
    /\ conn = OpenConn /\ client = <<>>

GuardPut ==
    /\ pathOp = "none"
    /\ pathOp' = "put" /\ pathOut' = ResolvePut(pathIn)
    /\ UNCHANGED <<fs, auditLoc, auditQueue, writerLog, streams, menu, script, conn, client, pathIn>>

GuardGet ==
    /\ pathOp = "none"
    /\ pathOp' = "get" /\ pathOut' = ResolveGet(pathIn)
    /\ UNCHANGED <<fs, auditLoc, auditQueue, writerLog, streams, menu, script, conn, client, pathIn>>

GuardList ==
    /\ pathOp = "none"
    /\ pathOp' = "list" /\ pathOut' = ResolveList(pathIn)
    /\ UNCHANGED <<fs, auditLoc, auditQueue, writerLog, streams, menu, script, conn, client, pathIn>>

PathNext == GuardPut \/ GuardGet \/ GuardList

PathSpec == PathInit /\ [][PathNext]_vars

\* ------------------------------------------- client: state::normalize, join
\* Here a path string is taken character by character: "/" and one other
\* character.
\* str::replace("//", "/"): one left-to-right pass over non-overlapping matches.
RECURSIVE ReplaceSlashSlash(_)
ReplaceSlashSlash(p) ==
    IF p = <<>> THEN <<>>
    ELSE IF Len(p) >= 2 /\ p[1] = "/" /\ p[2] = "/"
         THEN <<"/">> \o ReplaceSlashSlash(SubSeq(p, 3, Len(p)))
         ELSE <<Head(p)>> \o ReplaceSlashSlash(Tail(p))

\* str::trim_end_matches('/'): drops every trailing '/'.
RECURSIVE TrimEndSlashes(_)
TrimEndSlashes(p) ==
    IF p # <<>> /\ Last(p) = "/" THEN TrimEndSlashes(SubSeq(p, 1, Len(p) - 1)) ELSE p

normalize(path) ==
    IF path = <<>> THEN <<"/">>
    ELSE LET q == ReplaceSlashSlash(path)
             r == IF Head(q) # "/" THEN <<"/">> \o q ELSE q
         IN IF Len(r) > 1 /\ Last(r) = "/" THEN TrimEndSlashes(r) ELSE r

join(cwd, dir) ==
    IF dir # <<>> /\ Head(dir) = "/" THEN normalize(dir)
    ELSE IF cwd = <<"/">> THEN normalize(<<"/">> \o dir)
    ELSE normalize(TrimEndSlashes(cwd) \o <<"/">> \o dir)

NormInputs == UNION {[1..n -> {"/", "a"}] : n \in 0..MaxPathLen}

\* The argument is pathIn; script holds the cwd of the saved state, which is
\* whatever state.json contains.
NormInit ==
    /\ pathIn \in NormInputs /\ pathOp = "none" /\ pathOut = <<>>
    /\ script \in NormInputs
    /\ fs = EmptyFs /\ auditLoc = DefaultAuditLoc /\ auditQueue = <<>>
    /\ writerLog = <<>> /\ streams = <<>> /\ menu = {}
    /\ conn = OpenConn /\ client = <<>>

Normalize ==
    /\ pathOp = "none"
    /\ pathOp' = "normalize" /\ pathOut' = normalize(pathIn)
    /\ UNCHANGED <<fs, auditLoc, auditQueue, writerLog, streams, menu, script, conn, client, pathIn>>

\* normalize applied to a path normalize returned.
NormalizeAgain ==
    /\ pathOp = "normalize"
    /\ pathOp' = "normalized twice" /\ pathOut' = normalize(pathOut)
    /\ UNCHANGED <<fs, auditLoc, auditQueue, writerLog, streams, menu, script, conn, client, pathIn>>

Join ==
    /\ pathOp = "none"
    /\ pathOp' = "join" /\ pathOut' = join(script, pathIn)
    /\ UNCHANGED <<fs, auditLoc, auditQueue, writerLog, streams, menu, script, conn, client, pathIn>>

NormNext == Normalize \/ NormalizeAgain \/ Join

NormSpec == NormInit /\ [][NormNext]_vars

\* ------------------------------------------------------- scenario of the spec
HelloWorld == <<"h", "e", "l", "l", "o", " ", "w", "o", "r", "l", "d", "!">>

\* Put notes.txt (12 bytes), List "/", Status, Get "/notes.txt".
Scenario ==
    <<PutReq(PathNotes, [data |-> HelloWorld, size |-> Len(HelloWorld)]),
      ListReq(PathSlash, FALSE), StatusReq, GetReq(PathSlashNotes)>>

\* The same commands from a client that is cut off after 5 bytes of the Put.
ScenarioCut ==
    <<PutReq(PathNotes, [data |-> SubSeq(HelloWorld, 1, 5), size |-> Len(HelloWorld)])>>
    \o Tail(Scenario)

ScenarioInit ==
    /\ ServerStarted
    /\ Established
    /\ auditLoc \in {DefaultAuditLoc, ExternalAuditLoc}
    /\ fs = EmptyFs
    /\ menu = {}
    /\ script \in {Scenario, ScenarioCut}

\* The client runs one command after the other: each opens its stream once
\* the command before it has ended.
ScenarioOpen ==
    /\ script # <<>>
    /\ conn.state = "open"
    /\ \A s \in Sids : streams[s].pc = "done"
    /\ streams' = Append(streams, NewStream(Head(script)))
    /\ script' = Tail(script)
    /\ UNCHANGED <<fs, auditLoc, auditQueue, writerLog, menu, conn, client, pathIn, pathOp, pathOut>>

ScenarioNext == ScenarioOpen \/ ServerNext

ScenarioSpec == ScenarioInit /\ [][ScenarioNext]_vars

\* -------------------------------------------------------------- properties
\* The only Put among the accepted streams whose destination is s's.
OnlyPutTo(s) == PutsTo(ResolvePut(streams[s].req.path)) = {s}

PutStreams == {s \in Sids : streams[s].req.cmd = "put"}

\* What write_entry appended so far, line after line.
RECURSIVE LinesOf(_)
LinesOf(log) ==
    IF log = <<>> THEN <<>>
    ELSE (IF Head(log).ok THEN JsonLine(Head(log).entry) ELSE <<>>) \o LinesOf(Tail(log))

\* C1: every path a handler resolves from a client path string is the root
\* or a descendant of the root.
PathConfinement == pathOp # "none" => Confined(pathOut)

\* C2: a Get that follows a complete Put of N bytes to the same path, with no
\* other Put to that path, answers File{size: N} and then exactly the N bytes
\* of the Put, in order.
RoundTrip ==
    \A g \in Sids :
        LET st == streams[g]
            u == st.after
        IN (st.req.cmd = "get" /\ st.pc = "done" /\ u # 0 /\ OnlyPutTo(u)) =>
              /\ st.result = "ok"
              /\ st.resp = <<[Response("file") EXCEPT !.size = streams[u].req.size]>>
              /\ st.body = streams[u].req.data
              /\ Len(st.body) = streams[u].req.size

\* A Get has returned the two bytes of a Put in the order they were sent.
RoundTripWitness ==
    \E g \in Sids :
        /\ streams[g].req.cmd = "get" /\ streams[g].pc = "done"
        /\ streams[g].after # 0 /\ OnlyPutTo(streams[g].after)
        /\ Len(streams[g].body) >= 2
        /\ streams[g].body[1] # streams[g].body[2]

\* C3: the Put handler never takes more than the declared size from the
\* stream, the destination holds the bytes taken, and Done reports the
\* number of bytes taken and written (not the declared size).
SizeHonesty ==
    \A s \in PutStreams :
        LET st == streams[s]
            dest == ResolvePut(st.req.path)
        IN /\ st.received <= st.req.size
           /\ st.received <= Len(st.req.data)
           /\ (OnlyPutTo(s) /\ dest # auditLoc /\ (st.pc = "put_read" \/ st.hres = "ok")) =>
                 fs[dest].data = SubSeq(st.req.data, 1, st.received)
           /\ \A i \in 1..Len(st.resp) :
                 st.resp[i].status = "done" =>
                    /\ st.resp[i].written = st.received
                    /\ st.resp[i].written = Min(st.req.size, Len(st.req.data))

\* A sender stopped before the declared size and Done went out.
SizeHonestyWitness ==
    \E s \in PutStreams :
        /\ Len(streams[s].req.data) < streams[s].req.size
        /\ Len(streams[s].req.data) > 0
        /\ streams[s].resp # <<>> /\ Last(streams[s].resp).status = "done"

AuditAppendOnly ==
    [][IsPrefix(fs[auditLoc].data, fs'[auditLoc].data)]_vars

\* C6: a task that records an audit entry never waits for the writer: the
\* record call can complete in every state in which a task has reached it.
ProducersNeverWait ==
    \A s \in Sids : streams[s].pc = "audit" => ENABLED AuditRecord(s)

ScenarioAnswers ==
    \A s \in Sids :
        LET st == streams[s] IN
        (auditLoc = DefaultAuditLoc /\ CompleteUpload(streams[1]) /\ st.pc = "done") =>
            /\ st.req.cmd = "list" =>
                 Last(st.resp).entries =
                     {[name |-> PathNotes, is_dir |-> FALSE, size |-> 12]}
            /\ st.req.cmd = "status" =>
                 Last(st.resp).file_count = 1 /\ Last(st.resp).total_size = 12

\* C9: two Lists with the same path and flags, in a run without any Put,
\* return the same set of entries.
ListIdempotent ==
    PutStreams = {} =>
        \A s, t \in Sids :
            (/\ streams[s].req.cmd = "list" /\ streams[s].pc = "done"
             /\ streams[t].pc = "done" /\ streams[t].req = streams[s].req) =>
                Last(streams[s].resp).entries = Last(streams[t].resp).entries

\* C10: a Get that does not answer File answers Error and its task ends
\* without error; it never ends without a response.
GetRejection ==
    \A g \in Sids :
        LET st == streams[g] IN
        (st.req.cmd = "get" /\ st.pc = "done" /\ st.fsize = 0 /\ st.body = <<>>
         /\ (st.resp = <<>> \/ st.resp[1].status # "file")) =>
            /\ st.resp = <<Response("error")>>
            /\ st.result = "ok"

\* C11: a Get that answered File{size} and whose handler returned Ok wrote
\* exactly size payload bytes on the stream.
GetPayloadLength ==
    \A g \in Sids :
        LET st == streams[g] IN
        (/\ st.req.cmd = "get" /\ st.pc = "done" /\ st.result = "ok"
         /\ st.resp # <<>> /\ st.resp[1].status = "file") =>
            Len(st.body) = st.resp[1].size

\* C16: when the only two Puts to a destination have both sent their whole
\* payload and got Done, the destination holds the payload of one of them.
LastWriterWins ==
    \A s, t \in PutStreams :
        LET dest == ResolvePut(streams[s].req.path) IN
        (/\ s # t /\ PutsTo(dest) = {s, t} /\ dest # auditLoc
         /\ CompleteUpload(streams[s]) /\ CompleteUpload(streams[t])) =>
            fs[dest].data \in {streams[s].req.data, streams[t].req.data}

\* C19: a stream whose handler returned an error has an audit entry with
\* success = false, queued or handed to the writer, once its task has ended.
FailureNotified ==
    \A s \in Sids :
        (streams[s].pc = "done" /\ streams[s].hres = "err") =>
            \/ \E i \in 1..Len(auditQueue) :
                 auditQueue[i].src = s /\ ~auditQueue[i].success
            \/ \E i \in 1..Len(writerLog) :
                 writerLog[i].entry.src = s /\ ~writerLog[i].entry.success

\* C12: the List handler, run on a path that is not a directory (nothing
\* there, or a regular file), flat or recursive, answers List with no entry
\* and returns Ok.
ListNonDirectory ==
    [][\A s \in Sids :
          (/\ streams[s].pc = "list" /\ streams'[s].pc # "list"
           /\ ~IsDir(fs, ResolveList(streams[s].req.path))) =>
              /\ streams'[s].resp = <<Response("list")>>
              /\ streams'[s].pc = "done" /\ streams'[s].result = "ok"]_vars

\* A recursive and a flat List of d/a, a regular file, have both ended with
\* an empty List.
ListNonDirectoryWitness ==
    \E s, t \in Sids :
        /\ s # t
        /\ streams[s].req = ListReq(PathDA, TRUE) /\ streams[s].pc = "done"
        /\ streams[t].req = ListReq(PathDA, FALSE) /\ streams[t].pc = "done"
        /\ streams[s].resp = <<Response("list")>>
        /\ streams[t].resp = <<Response("list")>>
        /\ IsFile(fs, ResolveList(PathDA))

\* A stream whose task met an error.
Failed(st) == st.hres = "err" \/ st.result = "err"

\* The statuses of the responses sent on a stream, in order.
Statuses(st) == [i \in 1..Len(st.resp) |-> st.resp[i].status]

\* C13: the step in which a stream fails, and the arrival of a stream, leave
\* every other stream and the connection as they were; whatever has failed,
\* a task at its audit send (the one step of a task that waits for another
\* task) can go on, at worst once the writer has made room in the queue, and
\* the accept loop can take the next stream.
StreamIsolation ==
    /\ [][\A s \in Sids :
            (~Failed(streams[s]) /\ Failed(streams'[s])) =>
                /\ \A t \in Sids \ {s} : streams'[t] = streams[t]
                /\ Len(streams') = Len(streams)
                /\ conn' = conn]_vars
    /\ [][Len(streams') > Len(streams) =>
            /\ \A t \in Sids : streams'[t] = streams[t]
            /\ conn' = conn]_vars
    /\ [](\A t \in Sids :
            streams[t].pc = "audit" => ENABLED AuditRecord(t) \/ ENABLED WriterStep)
    /\ [](Len(streams) < MaxStreams => ENABLED ClientOpen)

\* A stream failed and a stream accepted after it on the same connection
\* completed its Put with Done.
StreamIsolationWitness ==
    \E s, t \in Sids :
        /\ s < t
        /\ Failed(streams[s]) /\ streams[s].pc = "done"
        /\ streams[t].req.cmd = "put" /\ streams[t].pc = "done"
        /\ streams[t].result = "ok" /\ Statuses(streams[t]) = <<"ok", "done">>

\* C15: what the server sends on a stream is the response side of one
\* exchange, it takes no byte from the stream beyond the one request and a
\* Put's declared size, and once the task has ended the stream never
\* changes again.
OneExchange ==
    /\ [](\A s \in Sids :
            LET st == streams[s] IN
            /\ Statuses(st) \in
                 (IF st.req.cmd = "put" THEN {<<>>, <<"ok">>, <<"ok", "done">>}
                  ELSE IF st.req.cmd = "get" THEN {<<>>, <<"file">>, <<"error">>}
                  ELSE IF st.req.cmd = "list" THEN {<<>>, <<"list">>}
                  ELSE IF st.req.cmd = "status" THEN {<<>>, <<"status">>}
                  ELSE {<<>>})
            /\ st.received <= (IF st.req.cmd = "put" THEN st.req.size ELSE 0))
    /\ [][\A s \in Sids : streams[s].pc = "done" => streams'[s] = streams[s]]_vars

\* The peer sent further bytes on two streams, after a Put's declared size
\* and after a List request; both tasks have ended after one exchange.
OneExchangeWitness ==
    \E s, t \in Sids :
        /\ streams[s].req.cmd = "put" /\ streams[s].pc = "done"
        /\ Len(streams[s].req.data) > streams[s].req.size
        /\ Statuses(streams[s]) = <<"ok", "done">>
        /\ streams[t].req = PipelinedList /\ streams[t].pc = "done"
        /\ Statuses(streams[t]) = <<"list">>

\* C20: an Error response is sent only by Get, as its only response, on a
\* path that exists and is not a regular file; a Put that fails sends
\* nothing after what it had sent (nothing, or Ok), neither Done nor Error.
ErrorOnlyForGet ==
    /\ [](\A s \in Sids :
            LET st == streams[s] IN
            /\ (\E i \in 1..Len(st.resp) : st.resp[i].status = "error") =>
                  st.req.cmd = "get" /\ Statuses(st) = <<"error">>
            /\ (st.req.cmd = "put" /\ st.hres = "err") =>
                  Statuses(st) \in {<<>>, <<"ok">>})
    /\ [][\A s \in Sids :
            (Len(streams'[s].resp) > Len(streams[s].resp)
             /\ Last(streams'[s].resp).status = "error") =>
                /\ streams[s].pc = "get"
                /\ fs[ResolveGet(streams[s].req.path)].kind = "dir"]_vars

\* A Put was answered Ok, failed (at File::create or in the receive loop)
\* and its task has ended; a Get of a directory was answered Error.
ErrorOnlyForGetWitness ==
    \E s, t \in Sids :
        /\ streams[s].req.cmd = "put" /\ streams[s].pc = "done"
        /\ streams[s].result = "err" /\ Statuses(streams[s]) = <<"ok">>
        /\ streams[t].req.cmd = "get" /\ Statuses(streams[t]) = <<"error">>

\* The entries of the connection task with one of the given events, queued
\* or handed to the writer.
ConnEntries(events) ==
    Cardinality({i \in 1..Len(auditQueue) :
                   auditQueue[i].src = 0 /\ auditQueue[i].event \in events})
    + Cardinality({i \in 1..Len(writerLog) :
                   writerLog[i].entry.src = 0 /\ writerLog[i].entry.event \in events})

\* C14: an established connection whose accept loop has ended has exactly
\* one terminal entry, Disconnect if the peer closed and Error with
\* success = false otherwise; before the loop ends there is none; once it has
\* ended no stream is accepted; and a connection that is closed or lost does
\* reach the end of its loop.
ConnLifecycle ==
    /\ [](/\ conn.state # "ended" => ConnEntries({"disconnect", "error"}) = 0
          /\ ConnEntries({"connect"}) = (IF conn.state = "incoming" \/ conn.cause = "refused"
                                         THEN 0 ELSE 1)
          /\ (conn.state = "ended" /\ conn.cause = "refused") =>
                ConnEntries({"disconnect", "error"}) = 0
          /\ (conn.state = "ended" /\ conn.cause = "closed") =>
                ConnEntries({"disconnect"}) = 1 /\ ConnEntries({"error"}) = 0
          /\ (conn.state = "ended" /\ conn.cause = "lost") =>
                ConnEntries({"disconnect"}) = 0 /\ ConnEntries({"error"}) = 1
          /\ \A i \in 1..Len(auditQueue) :
                (auditQueue[i].src = 0 /\ auditQueue[i].event = "error") =>
                    ~auditQueue[i].success)
    /\ [][conn.state = "ended" => Len(streams') = Len(streams) /\ conn' = conn]_vars
    /\ ((conn.state = "open" /\ conn.cause # "none") ~> conn.state = "ended")

\* The connection was lost with a stream accepted; the loop has ended and its
\* Error entry has been written to the log.
ConnLifecycleWitness ==
    /\ conn = Connection("ended", "lost")
    /\ streams # <<>>
    /\ \E i \in 1..Len(writerLog) :
         writerLog[i].ok /\ writerLog[i].entry = TerminalEntry("lost")

\* The streams the client still has open: no final response yet and the
\* server's task has not ended.
OpenAtClient == {s \in Sids : Len(streams[s].resp) < 2 /\ streams[s].pc # "done"}

\* C17: the directory Put opens one stream per file, in the order of the
\* walk; it opens a stream only when every stream before has had its final
\* response, so at most one stream is open at the client; after a stream
\* that failed no further stream is opened.
SequentialPuts ==
    /\ [](/\ Cardinality(OpenAtClient) <= 1
          /\ Len(streams) <= Len(DirFiles)
          /\ \A i \in Sids : streams[i].req = DirFiles[i]
          /\ script \in {SubSeq(DirFiles, Len(streams) + 1, Len(DirFiles)), <<>>}
          /\ \A s \in Sids : Failed(streams[s]) => s = Len(streams))
    /\ [][Len(streams') > Len(streams) =>
            \A s \in Sids : Len(streams[s].resp) = 2]_vars

\* Both files of the walk were sent, each on its own stream, and both
\* streams got Done.
SequentialPutsWitness ==
    /\ Len(streams) = Len(DirFiles)
    /\ script = <<>>
    /\ \A s \in Sids : streams[s].pc = "done" /\ Statuses(streams[s]) = <<"ok", "done">>

PutHandshake ==
    /\ [](\A s \in DOMAIN client :
            LET st == streams[s]
                c == client[s]
            IN /\ Statuses(st) \in {<<>>, <<"ok">>, <<"ok", "done">>}
               /\ st.resp # <<>> => IsDir(fs, Parent(ResolvePut(st.req.path)))
               /\ st.received > 0 => st.resp # <<>>
               /\ st.req.data # <<>> => c.pc # "wait_ok" /\ st.resp # <<>>
               /\ c.pc = "wait_ok" => c.sent = 0 /\ ~c.fin
               /\ StreamEnded(s, 1) => st.req.data = <<>> /\ c.pc \in {"wait_ok", "failed"})
    /\ [][\A s \in DOMAIN client :
            /\ (streams[s].resp = <<>> /\ streams'[s].resp # <<>>)
                 => /\ streams'[s].received = 0
                    /\ IsDir(fs', Parent(ResolvePut(streams[s].req.path)))
                    /\ ~IsFile(fs', ResolvePut(streams[s].req.path))
                       \/ fs'[ResolvePut(streams[s].req.path)] = fs[ResolvePut(streams[s].req.path)]
            /\ (streams'[s].req.data # streams[s].req.data)
                 => (client[s].pc = "sending" /\ streams[s].resp[1].status = "ok")]_vars

\* The driver wrote its file after Ok and got Done.
PutHandshakeWitness ==
    \E s \in DOMAIN client :
        /\ client[s].pc = "returned" /\ client[s].sent = MaxSize
        /\ Statuses(streams[s]) = <<"ok", "done">>
        /\ IsFile(fs, ResolvePut(streams[s].req.path))

\* C22: once send_file has opened its Put stream, then, unless a call of the
\* handler fails, the handler sends Done with the number of bytes written and
\* returns, and the driver reads that response and returns; when a call of
\* the handler does fail, the stream task still ends and the driver fails.
PutTerminates ==
    (client # <<>>) ~>
        (\A s \in DOMAIN client :
            \/ /\ streams[s].hres = "ok"
               /\ Statuses(streams[s]) = <<"ok", "done">>
               /\ streams[s].resp[2].written = streams[s].received
               /\ client[s].pc = "returned"
            \/ /\ streams[s].hres = "err"
               /\ streams[s].pc = "done"
               /\ client[s].pc = "failed")

\* The driver's file ended before the declared size: it finished its side,
\* the handler reported the shorter count in Done and the driver returned.
PutTerminatesWitness ==
    \E s \in DOMAIN client :
        /\ client[s].pc = "returned" /\ client[s].fin
        /\ streams[s].hres = "ok"
        /\ Last(streams[s].resp).status = "done"
        /\ Last(streams[s].resp).written < streams[s].req.size

\* The handler of stream s stands in recv.read with nothing to read: fewer
\* bytes than declared received, all the peer wrote consumed, the stream
\* neither finished nor reset, the connection up.
Stalled(s) ==
    /\ streams[s].pc = "put_read"
    /\ streams[s].received < streams[s].req.size
    /\ Len(streams[s].req.data) = streams[s].received
    /\ ~client[s].fin /\ ~client[s].reset
    /\ conn = OpenConn

\* C23: while a Put's peer has sent fewer bytes than declared and neither
\* finishes nor resets the stream nor is the connection lost, no step makes
\* the handler send Done or end its task; the handler leaves its read loop
\* only with received = size, at the end of the stream, or on a failed read
\* or write.
NoPutTimeout ==
    /\ [][\A s \in DOMAIN client :
            (Stalled(s) /\ client' = client /\ conn' = conn)
                => streams'[s] = streams[s]]_vars
    /\ [][\A s \in DOMAIN client :
            (streams[s].pc = "put_read" /\ streams'[s].pc # "put_read")
                => \/ streams'[s].received = streams[s].req.size
                   \/ client[s].fin /\ Len(streams[s].req.data) = streams[s].received
                   \/ streams'[s].hres = "err"]_vars

\* A handler that waits in its read loop for a peer that has stopped after a
\* part of the declared bytes, while the audit writer has gone on working.
NoPutTimeoutWitness ==
    \E s \in DOMAIN client :
        /\ Stalled(s)
        /\ streams[s].received > 0
        /\ client[s].pc = "sending"
        /\ auditQueue = <<>> /\ writerLog # <<>>

\* The stream ends inside the length prefix or before the declared number
\* of bytes, or the declared bytes are no Request.
BadFrame(w) ==
    IF Len(w) < PrefixLen THEN TRUE
    ELSE IF Len(w) - PrefixLen < FromBeBytes(SubSeq(w, 1, PrefixLen)) THEN TRUE
    ELSE ~Decode(SubSeq(w, PrefixLen + 1,
                        PrefixLen + FromBeBytes(SubSeq(w, 1, PrefixLen)))).ok

\* The audit entries built by the task of stream s, queued or written.
EntriesOf(s) ==
    {i \in 1..Len(auditQueue) : auditQueue[i].src = s}
    \cup {Len(auditQueue) + i : i \in {j \in 1..Len(writerLog) : writerLog[j].entry.src = s}}

\* C24: a stream whose bytes end before the prefix and the declared length
\* are read, or do not decode, ends its task with an error: no handler ran,
\* no response or payload was sent, no audit entry was built, and no step
\* but the audit writer's changes the filesystem; any other stream is
\* dispatched.
FramingError ==
    /\ [](streams # <<>> =>
            IF BadFrame(script)
            THEN /\ streams[1].req.cmd = "garbage"
                 /\ streams[1].pc = "done" /\ streams[1].result = "err"
                 /\ streams[1].hres = "none"
                 /\ streams[1].resp = <<>> /\ streams[1].body = <<>>
                 /\ streams[1].received = 0
                 /\ EntriesOf(1) = {}
            ELSE streams[1].req.cmd \in {"put", "list", "get", "status"})
    /\ [][BadFrame(script) =>
            \/ fs' = fs
            \/ auditQueue # <<>> /\ auditQueue' = Tail(auditQueue)]_vars

\* A stream with a whole prefix and as many bytes as it declares, which are
\* no Request: its task has ended and the audit writer has caught up.
FramingErrorWitness ==
    /\ Len(script) > PrefixLen
    /\ Len(script) - PrefixLen = FromBeBytes(SubSeq(script, 1, PrefixLen))
    /\ BadFrame(script)
    /\ streams # <<>>
    /\ auditQueue = <<>> /\ writerLog # <<>>

\* C25: the location a handler resolves for a client path is the one the
\* stated policy gives: one leading "/" removed, every ".." deleted, the rest
\* joined onto the root; the same for Put, Get and List.
GuardReference ==
    pathOp # "none" =>
        LET one == IF pathIn # <<>> /\ Head(pathIn) = "/" THEN Tail(pathIn) ELSE pathIn
        IN pathOut = Root \o Components(ReplaceDotDot(one))

\* Every entry the channel has accepted so far, in the order of acceptance:
\* those the writer has taken, then those still queued.
Accepted == [i \in 1..Len(writerLog) |-> writerLog[i].entry] \o auditQueue

\* C26: the entries accepted into the queue form one sequence that only
\* grows at its end; the writer takes them one at a time from the front, so
\* each is handed to write_entry once and the log file holds the lines of
\* the entries written, in the order of acceptance; ServerStart is the first
\* entry, before any Connect.
WriterOrder ==
    /\ [](/\ Accepted # <<>> => Accepted[1] = ServerStartEntry
          /\ \A i \in 2..Len(Accepted) : Accepted[i].event # "server_start"
          /\ fs[auditLoc].data = LinesOf(writerLog))
    /\ [][\/ Accepted' = Accepted
          \/ /\ Len(Accepted') = Len(Accepted) + 1
             /\ SubSeq(Accepted', 1, Len(Accepted)) = Accepted
             /\ writerLog' = writerLog]_vars
    /\ [][Len(writerLog') \in {Len(writerLog), Len(writerLog) + 1}]_vars

\* ServerStart, Connect and a stream's entry went through the writer in that
\* order; the write of Connect failed and only the other two are in the file.
WriterOrderWitness ==
    /\ Len(writerLog) >= 3
    /\ writerLog[1] = [entry |-> ServerStartEntry, ok |-> TRUE]
    /\ writerLog[2] = [entry |-> ConnectEntry, ok |-> FALSE]
    /\ writerLog[3].entry.src # 0 /\ writerLog[3].ok
    /\ fs[auditLoc].data = JsonLine(ServerStartEntry) \o JsonLine(writerLog[3].entry)

\* The events of the entries handle_stream builds.
StreamEvents == {"file_received", "list_request", "status_request", "file_request"}

\* C27: every entry of a stream of the connection is accepted into the queue
\* after the connection's Connect entry (the connection's Disconnect or
\* Error entry is not so ordered: streams in flight when the accept loop
\* ends record their entries after it).
ConnectFirst ==
    \A i \in 1..Len(Accepted) :
        (Accepted[i].event \in StreamEvents \/ Accepted[i].src # 0) =>
            \E j \in 1..(i - 1) : Accepted[j].event = "connect" /\ Accepted[j].src = 0

\* The accept loop has ended and logged Disconnect or Error, and a stream
\* that was in flight has recorded its entry after that.
ConnectFirstWitness ==
    \E i \in 1..Len(Accepted), j \in 1..Len(Accepted) :
        /\ j < i
        /\ Accepted[j].event \in {"disconnect", "error"}
        /\ Accepted[i].event \in StreamEvents

\* The places in the order of acceptance that hold an entry of stream s.
AcceptedOf(s) == {i \in 1..Len(Accepted) : Accepted[i].src = s}

\* C28: a Put stream has no audit entry while its handler runs, and from the
\* audit send on exactly one: a file_received entry with the request's path,
\* the size the request declared and success true exactly if the handler
\* returned Ok; a task that has ended has sent it.
PutAudit ==
    \A s \in PutStreams :
        LET st == streams[s] IN
        /\ Cardinality(AcceptedOf(s)) <= 1
        /\ st.pc \in {"put_prepare", "put_create", "put_read", "audit"} => AcceptedOf(s) = {}
        /\ st.pc = "done" => Cardinality(AcceptedOf(s)) = 1
        /\ \A i \in AcceptedOf(s) :
              /\ st.hres \in {"ok", "err"}
              /\ Accepted[i] = AuditEntry("file_received", s, Some(st.req.path),
                                          Some(st.req.size), st.hres = "ok")

\* A Put whose peer finished early: Done reported fewer bytes than declared
\* and the entry says success with the declared size.
PutAuditWitness ==
    \E s \in PutStreams :
        /\ streams[s].pc = "done" /\ streams[s].hres = "ok"
        /\ streams[s].received < streams[s].req.size
        /\ \E i \in AcceptedOf(s) :
              Accepted[i].success /\ Accepted[i].size = Some(streams[s].req.size)

\* C29: normalize returns, for every string, a non-empty path that starts
\* with "/" and ends with "/" only if it is "/" itself, and normalizing its
\* result again changes nothing; join returns such a path for every cwd and
\* dir.
NormalizeContract ==
    /\ [](pathOp \in {"normalize", "join"} =>
            /\ pathOut # <<>>
            /\ Head(pathOut) = "/"
            /\ Last(pathOut) = "/" => pathOut = <<"/">>)
    /\ [][pathOp = "normalize" /\ pathOp' = "normalized twice" => pathOut' = pathOut]_vars

====
